---- MODULE Spec2Model ----
(***************************************************************************)
(* A model of the sjournal slog handler: Context (Handler) derivation by   *)
(* WithAttrs / WithGroup / ExtendPrefix over Go slices with shared backing *)
(* arrays, the attribute renderer, the entry encoder of Handle, the        *)
(* call-site cache and the datagram transport with its oversize fallback.  *)
(*                                                                         *)
(* A Go string or []byte is a sequence of bytes; a byte is a one-character *)
(* string, or "xHH" for a byte that is written as a binary value.          *)
(***************************************************************************)
EXTENDS Integers, Sequences, FiniteSets, TLC

VARIABLES
    platform,     \* build target: "linux", "unix" (darwin || unix, not linux), "other"
    ctx,          \* the Handlers that exist, in order of creation
    heapB,        \* backing arrays of []byte slices
    heapS,        \* backing arrays of []string slices
    hist,         \* history of each Handler: how it was derived (not program state)
    suffixCache,  \* the package-level sync.Map: PC -> suffix
    openFds,      \* file descriptors of fallback files open in the process
    last,         \* the most recent call and what it did
    calls,        \* the Handle calls in progress, one per goroutine, with their position
    pool,         \* the buffers in the buffer pool (free)
    mem           \* the backing array of every buffer the pool has made

\* the state that only concurrent calls of Handle work on
conc == <<calls, pool, mem>>

vars == <<platform, ctx, heapB, heapS, hist, suffixCache, openFds, last, calls, pool, mem>>

-----------------------------------------------------------------------------
(* Bounds of the model.                                                    *)

\* width of Go's int in the model (64 in the program)
IntBits == 8
\* number of Handlers that may exist in SpecDerive
MaxHandlers == 4
\* number of Handlers that may exist in specifications that also call Handle
MaxChain == 3
\* number of goroutines that call Handle concurrently
MaxCalls == 2
\* number of buffers up to which the pool may make a new one while it holds free ones
MaxBuffers == 2

-----------------------------------------------------------------------------
(* Bytes, integers and text.                                               *)

Hex == <<"0","1","2","3","4","5","6","7","8","9","a","b","c","d","e","f">>

ByteStr(n) == "x" \o Hex[(n \div 16) + 1] \o Hex[(n % 16) + 1]

ByteTable == [n \in 0..255 |-> ByteStr(n)]

ByteVal(s) == IF s = ByteTable[0] THEN 0 ELSE CHOOSE n \in 0..255 : ByteTable[n] = s

IntMin == -(2^(IntBits - 1))

IntMax == 2^(IntBits - 1) - 1

\* Go's integer arithmetic wraps around in two's complement
Wrap(x) == ((x - IntMin) % (2^IntBits)) + IntMin

Digits == <<"0","1","2","3","4","5","6","7","8","9">>

RECURSIVE UItoa(_)
UItoa(n) == IF n < 10 THEN <<Digits[n + 1]>> ELSE UItoa(n \div 10) \o <<Digits[(n % 10) + 1]>>

\* strconv.AppendInt(b, n, 10) and fmt's %d
Itoa(n) == IF n < 0 THEN <<"-">> \o UItoa(-n) ELSE UItoa(n)

RECURSIVE Flatten(_)
Flatten(chunks) == IF chunks = <<>> THEN <<>> ELSE Head(chunks) \o Flatten(Tail(chunks))

\* binary.LittleEndian.PutUint64: the k low bytes of n, least significant first
RECURSIVE LittleEndian(_, _)
LittleEndian(n, k) == IF k = 0 THEN <<>> ELSE <<ByteTable[n % 256]>> \o LittleEndian(n \div 256, k - 1)

-----------------------------------------------------------------------------
(* Levels and the priority table.                                          *)

LevelDebug == -4
LevelInfo == 0
LevelNotice == LevelInfo + 2
LevelWarn == 4
LevelError == 8
LevelCrit == LevelError + 4
LevelAlert == LevelError + 8

Zeros8 == <<"x00","x00","x00","x00","x00","x00","x00","x00">>

PriorityPrefix(d) == <<"P","R","I","O","R","I","T","Y","=",d,"\n","M","E","S","S","A","G","E","\n">> \o Zeros8

prefixEmerg == PriorityPrefix("0")
prefixAlert == PriorityPrefix("1")
prefixCrit == PriorityPrefix("2")
prefixErr == PriorityPrefix("3")
prefixWarning == PriorityPrefix("4")
prefixNotice == PriorityPrefix("5")
prefixInfo == PriorityPrefix("6")
prefixDebug == PriorityPrefix("7")

priorityPrefixes == <<prefixDebug, prefixInfo, prefixInfo, prefixInfo, prefixInfo, prefixNotice, prefixNotice, prefixNotice, prefixWarning, prefixErr, prefixErr, prefixErr, prefixErr, prefixCrit, prefixCrit, prefixCrit, prefixCrit>>

levelPrefixHighCrit(level) ==
    LET i == Wrap(level - LevelDebug)
    IN  IF i < 0 THEN prefixDebug
        ELSE IF i < Len(priorityPrefixes) THEN priorityPrefixes[i + 1]
        ELSE prefixCrit

\* the switch at the head of Handle
levelPrefix(level) ==
    LET i == Wrap(level - LevelDebug)
    IN  IF i < 0 THEN prefixDebug
        ELSE IF i < Len(priorityPrefixes) THEN priorityPrefixes[i + 1]
        ELSE prefixAlert

-----------------------------------------------------------------------------
(* Go slices over shared backing arrays.                                   *)

NilSlice == [arr |-> 0, len |-> 0, cap |-> 0]

\* the elements of slice s in heap
Elems(heap, s) == IF s.len = 0 THEN <<>> ELSE SubSeq(heap[s.arr], 1, s.len)

\* slices.Clip(s) is s[:len(s):len(s)]: the same backing array, no spare capacity
Clip(s) == [s EXCEPT !.cap = s.len]

\* malloc size classes of the Go runtime (small objects)
SizeClasses == <<8, 16, 24, 32, 48, 64, 80, 96, 112, 128>>

roundupsize(n) == IF n > 128 THEN n ELSE SizeClasses[CHOOSE k \in 1..Len(SizeClasses) : SizeClasses[k] >= n /\ (k = 1 \/ SizeClasses[k - 1] < n)]

\* runtime.growslice: the capacity append allocates for `needed` elements of
\* `elemSize` bytes when the old capacity `oldCap` is too small
growslice(oldCap, needed, elemSize) ==
    LET newcap == IF needed > 2 * oldCap THEN needed ELSE 2 * oldCap
    IN  roundupsize(newcap * elemSize) \div elemSize

\* append(s, elems...): in place when the capacity allows, else into a new array
append(heap, s, elems, zero, elemSize) ==
    LET n == s.len + Len(elems)
    IN  IF Len(elems) = 0 THEN [heap |-> heap, s |-> s]
        ELSE IF n <= s.cap
        THEN [heap |-> [heap EXCEPT ![s.arr] = [k \in 1..Len(@) |-> IF k > s.len /\ k <= n THEN elems[k - s.len] ELSE @[k]]],
              s |-> [s EXCEPT !.len = n]]
        ELSE LET c == growslice(s.cap, n, elemSize)
                 a == [k \in 1..c |-> IF k <= s.len THEN heap[s.arr][k] ELSE IF k <= n THEN elems[k - s.len] ELSE zero]
             IN  [heap |-> Append(heap, a), s |-> [arr |-> Len(heap) + 1, len |-> n, cap |-> c]]

\* a sequence of writes to a buffer, each one append.  (An intermediate value
\* is bound through a one-element set wherever it is used more than once, so
\* that it is computed once.)
RECURSIVE WriteAll(_, _, _)
WriteAll(heap, s, chunks) ==
    IF chunks = <<>> THEN [heap |-> heap, s |-> s]
    ELSE CHOOSE w \in {WriteAll(r.heap, r.s, Tail(chunks)) : r \in {append(heap, s, Head(chunks), "x00", 1)}} : TRUE

-----------------------------------------------------------------------------
(* Attributes and records (the input contract of log/slog).                *)

StringValue(str) == [Kind |-> "String", str |-> str]
AnyNil == [Kind |-> "Any", any |-> "nil"]
SourceValue(file, line) == [Kind |-> "Source", File |-> file, Line |-> line]
TimeValue(t) == [Kind |-> "Time", time |-> t]
GroupValue(as) == [Kind |-> "Group", group |-> as]
Attr(key, value) == [Key |-> key, Value |-> value]

\* a.Equal(slog.Attr{}): the key is empty and the value is the zero Value
IsEmptyAttr(a) == a.Key = <<>> /\ a.Value.Kind = "Any"

ZeroTime == [zero |-> TRUE, sec |-> 0, nsec |-> 0]
Time(sec, nsec) == [zero |-> FALSE, sec |-> sec, nsec |-> nsec]

RFC3339Nano == <<"N">>
RFC3339 == <<"S">>

\* time.Time.Format for the two layouts of the model: with and without the
\* fraction of a second
FormatTime(t, layout) ==
    IF layout = RFC3339Nano THEN <<"T">> \o Itoa(t.sec) \o <<".">> \o Itoa(t.nsec) \o <<"Z">>
    ELSE <<"T">> \o Itoa(t.sec) \o <<"Z">>

\* slog.Value.String() of a value that is not a group
ValueString(v) ==
    IF v.Kind = "String" THEN v.str
    ELSE IF v.Kind = "Any" THEN <<"<","n","i","l",">">>
    ELSE <<>>

\* whether str is written quoted: it contains whitespace, a control character
\* or the quote character
needsQuoting(str) == \E k \in 1..Len(str) : str[k] \in {" ", "\t", "\n", "\""}

QuoteByte(c) ==
    IF c = "\"" THEN <<"\\", "\"">>
    ELSE IF c = "\\" THEN <<"\\", "\\">>
    ELSE IF c = "\n" THEN <<"\\", "n">>
    ELSE IF c = "\t" THEN <<"\\", "t">>
    ELSE <<c>>

\* strconv.AppendQuote: the bytes it appends for str
AppendQuote(str) == <<"\"">> \o Flatten([k \in 1..Len(str) |-> QuoteByte(str[k])]) \o <<"\"">>

-----------------------------------------------------------------------------
(* handleState and the attribute renderer.  buf is the sequence of writes  *)
(* made to the state's buffer, in order; each is one append.               *)

keyComponentSep == "."

newHandleState(h, groups, sep) == [h |-> h, groups |-> groups, buf |-> <<>>, sep |-> sep, prefix |-> <<>>]

WriteString(s, str) == [s EXCEPT !.buf = Append(@, str)]

appendString(s, str) == WriteString(s, IF needsQuoting(str) THEN AppendQuote(str) ELSE str)

openGroup(s, name) == [s EXCEPT !.prefix = @ \o name \o <<keyComponentSep>>]

closeGroup(s, name) == [s EXCEPT !.prefix = SubSeq(@, 1, Len(@) - Len(name) - 1), !.sep = <<" ">>]

RECURSIVE openGroupsFrom(_, _)
openGroupsFrom(s, names) == IF names = <<>> THEN s ELSE openGroupsFrom(openGroup(s, Head(names)), Tail(names))

\* for _, n := range s.h.groups[s.h.nOpenGroups:] { s.openGroup(n) }
openGroups(s) == openGroupsFrom(s, SubSeq(s.groups, s.h.nOpenGroups + 1, Len(s.groups)))

appendKey(s, key) ==
    LET s1 == WriteString(s, s.sep)
        s2 == IF Len(s1.prefix) > 0 THEN appendString(s1, s1.prefix \o key) ELSE appendString(s1, key)
    IN  [WriteString(s2, <<"=">>) EXCEPT !.sep = <<" ">>]

\* the special cases of appendAttr: a *slog.Source and a time become strings
SpecialCase(s, v) ==
    IF v.Kind = "Source" THEN StringValue(v.File \o <<":">> \o Itoa(v.Line))
    ELSE IF v.Kind = "Time" THEN StringValue(FormatTime(v.time, s.h.timeFormat))
    ELSE v

RECURSIVE appendAttr(_, _)
RECURSIVE appendAttrs(_, _)
appendAttrs(s, as) == IF as = <<>> THEN s ELSE CHOOSE t \in {appendAttrs(u, Tail(as)) : u \in {appendAttr(s, Head(as))}} : TRUE

appendAttr(s, a) ==
    IF IsEmptyAttr(a) THEN s
    ELSE LET v == SpecialCase(s, a.Value)
         IN  IF v.Kind = "Group"
             THEN IF Len(v.group) > 0
                  THEN LET s1 == IF a.Key # <<>> THEN openGroup(s, a.Key) ELSE s
                           s2 == appendAttrs(s1, v.group)
                       IN  IF a.Key # <<>> THEN closeGroup(s2, a.Key) ELSE s2
                  ELSE s
             ELSE appendString(appendKey(s, a.Key), ValueString(v))

-----------------------------------------------------------------------------
(* Handlers (Contexts).  level is <<>> for a nil Leveler, <<l>> otherwise. *)

defaultSocket == <<"/","j">>

NoOpts == [set |-> FALSE, Level |-> <<>>, Prefix |-> <<>>, TimeFormat |-> <<>>, Socket |-> <<>>]

Opts(level, prefix, timeFormat, socket) == [set |-> TRUE, Level |-> level, Prefix |-> prefix, TimeFormat |-> timeFormat, Socket |-> socket]

NewHandler(opts) ==
    [level |-> IF opts.set THEN opts.Level ELSE <<>>,
     preformattedAttrs |-> NilSlice,
     groupPrefix |-> <<>>,
     groups |-> NilSlice,
     nOpenGroups |-> 0,
     sock |-> "sock",
     addr |-> IF opts.set /\ opts.Socket # <<>> THEN opts.Socket ELSE defaultSocket,
     timeFormat |-> IF opts.set /\ opts.TimeFormat # <<>> THEN opts.TimeFormat ELSE RFC3339Nano,
     msgPrefix |-> IF opts.set THEN opts.Prefix ELSE <<>>]

EnabledStrict(h, l) == l > (IF h.level # <<>> THEN h.level[1] ELSE LevelDebug)

Enabled(h, l) ==
    LET minLevel == IF h.level # <<>> THEN h.level[1] ELSE LevelDebug
    IN  l >= minLevel

cloneNoClip(h) == h

clone(h) == [h EXCEPT !.preformattedAttrs = Clip(h.preformattedAttrs), !.groups = Clip(h.groups)]

\* the extension in place of the parent's prefix
ExtendPrefixReplaces(h, str) == [clone(h) EXCEPT !.msgPrefix = str]

ExtendPrefixResult(h, str) == [clone(h) EXCEPT !.msgPrefix = h.msgPrefix \o str]

\* WithAttrs: the new Handler and the heap of byte arrays after its writes
WithAttrsNoCount(h, as) ==
    LET h2 == clone(h)
        s0 == newHandleState(h2, Elems(heapS, h2.groups), <<>>)
        s1 == [s0 EXCEPT !.prefix = h.groupPrefix, !.sep = IF h2.preformattedAttrs.len > 0 THEN <<" ">> ELSE <<>>]
        rendered == {appendAttrs(openGroups(s1), as)}
    IN  CHOOSE res \in UNION {{[h |-> [h2 EXCEPT !.preformattedAttrs = w.s, !.groupPrefix = s3.prefix],
                                 heap |-> w.heap] : w \in {WriteAll(heapB, h2.preformattedAttrs, s3.buf)}} : s3 \in rendered} : TRUE

WithAttrsResult(h, as) ==
    LET h2 == clone(h)
        s0 == newHandleState(h2, Elems(heapS, h2.groups), <<>>)
        s1 == [s0 EXCEPT !.prefix = h.groupPrefix, !.sep = IF h2.preformattedAttrs.len > 0 THEN <<" ">> ELSE <<>>]
        rendered == {appendAttrs(openGroups(s1), as)}
    IN  CHOOSE res \in UNION {{[h |-> [h2 EXCEPT !.preformattedAttrs = w.s, !.groupPrefix = s3.prefix, !.nOpenGroups = h2.groups.len],
                                 heap |-> w.heap] : w \in {WriteAll(heapB, h2.preformattedAttrs, s3.buf)}} : s3 \in rendered} : TRUE

\* the new group counted as reflected at once
WithGroupCounted(h, name) ==
    LET h2 == clone(h)
        r == append(heapS, h2.groups, <<name>>, <<>>, 16)
    IN  [h |-> [h2 EXCEPT !.groups = r.s, !.nOpenGroups = r.s.len], heap |-> r.heap]

\* WithGroup: the new Handler and the heap of string arrays after the append
WithGroupResult(h, name) ==
    LET h2 == clone(h)
        r == append(heapS, h2.groups, <<name>>, <<>>, 16)
    IN  [h |-> [h2 EXCEPT !.groups = r.s], heap |-> r.heap]

-----------------------------------------------------------------------------
(* The call-site cache and the entry encoder.                              *)

PCs == {0, 1, 2}

\* runtime.CallersFrames([]uintptr{pc}).Next(): the zero Frame for a PC that
\* is no call site
Frame(pc) ==
    IF pc = 1 THEN [File |-> <<"m",".","g","o">>, Line |-> 25, Function |-> <<"m",".","f">>]
    ELSE IF pc = 2 THEN [File |-> <<"m",".","g","o">>, Line |-> 130, Function |-> <<"m",".","g">>]
    ELSE [File |-> <<>>, Line |-> 0, Function |-> <<>>]

\* fmt.Sprintf("\nCODE_FILE=%s\nCODE_LINE=%d\nCODE_FUNC=%s\n", f.File, f.Line, f.Function)
FormatSuffix(f) ==
    <<"\n","C","O","D","E","_","F","I","L","E","=">> \o f.File
    \o <<"\n","C","O","D","E","_","L","I","N","E","=">> \o Itoa(f.Line)
    \o <<"\n","C","O","D","E","_","F","U","N","C","=">> \o f.Function \o <<"\n">>

\* suffixCache.Load / Store in Handle
suffixFor(cache, pc) == IF pc \in DOMAIN cache THEN cache[pc] ELSE FormatSuffix(Frame(pc))

cacheAfter(cache, pc) == IF pc \in DOMAIN cache THEN cache ELSE [k \in DOMAIN cache \cup {pc} |-> IF k = pc THEN FormatSuffix(Frame(pc)) ELSE cache[k]]

appendNonBuiltIns(s, r) ==
    LET pre == Elems(heapB, s.h.preformattedAttrs)
        s1 == IF Len(pre) > 0 THEN [WriteString(WriteString(s, s.sep), pre) EXCEPT !.sep = <<" ">>] ELSE s
        s2 == [s1 EXCEPT !.prefix = @ \o s.h.groupPrefix]
    IN  appendAttrs(openGroups(s2), r.Attrs)

\* the epoch taken for the zero time
SyslogTimestampUnlessEpoch(r) ==
    IF r.Time.sec # 0
    THEN <<"S","Y","S","L","O","G","_","T","I","M","E","S","T","A","M","P","=">> \o Itoa(r.Time.sec) \o <<"\n">>
    ELSE <<>>

SyslogTimestamp(r) ==
    IF ~r.Time.zero
    THEN <<"S","Y","S","L","O","G","_","T","I","M","E","S","T","A","M","P","=">> \o Itoa(r.Time.sec) \o <<"\n">>
    ELSE <<>>

\* the length patched into the 8 bytes before the message
PatchLength(b, messageOffset, messageLen) ==
    CHOOSE p \in {SubSeq(bb, 1, messageOffset - 8) \o LittleEndian(n, 8) \o SubSeq(bb, messageOffset + 1, Len(bb)) : bb \in {b}, n \in {messageLen}} : TRUE

encodeEntryLenBeforeAttrs(h, r, suffix) ==
    LET prefix == levelPrefix(r.Level)
        messageOffset == Len(prefix)
        s1 == [newHandleState(h, Elems(heapS, h.groups), <<":", " ">>) EXCEPT !.buf = <<prefix, h.msgPrefix, r.Message>>]
    IN  CHOOSE b \in {PatchLength(written \o suffix \o SyslogTimestamp(r), messageOffset, Len(h.msgPrefix) + Len(r.Message)) :
                          written \in {Flatten(appendNonBuiltIns(s1, r).buf)}} : TRUE

\* the separator set only after a message that is not empty
encodeEntrySepIfMessage(h, r, suffix) ==
    LET prefix == levelPrefix(r.Level)
        s0 == WriteString(newHandleState(h, Elems(heapS, h.groups), <<>>), prefix)
        messageOffset == Len(prefix)
        s1 == [WriteString(WriteString(s0, h.msgPrefix), r.Message) EXCEPT !.sep = IF h.msgPrefix \o r.Message # <<>> THEN <<":", " ">> ELSE <<>>]
    IN  CHOOSE b \in {PatchLength(written \o suffix \o SyslogTimestamp(r), messageOffset, Len(written) - messageOffset) :
                          written \in {Flatten(appendNonBuiltIns(s1, r).buf)}} : TRUE

\* Handle up to the send: the bytes b of the entry
encodeEntry(h, r, suffix) ==
    LET prefix == levelPrefix(r.Level)
        s0 == WriteString(newHandleState(h, Elems(heapS, h.groups), <<>>), prefix)
        messageOffset == Len(prefix)
        s1 == [WriteString(WriteString(s0, h.msgPrefix), r.Message) EXCEPT !.sep = <<":", " ">>]
    IN  CHOOSE b \in {PatchLength(written \o suffix \o SyslogTimestamp(r), messageOffset, Len(written) - messageOffset) :
                          written \in {Flatten(appendNonBuiltIns(s1, r).buf)}} : TRUE

-----------------------------------------------------------------------------
(* The transport.  What the kernel answers to each system call is an input *)
(* (env); trace lists the system calls a send made, in order.              *)

NoError == [Op |-> "", Err |-> ""]

Error(op, errno) == [Op |-> op, Err |-> errno]

\* errors.Is(err, target) for a wrapped syscall.Errno
errorsIs(err, target) == err.Err = target

Ev(op, fd, data, addr, res) == [op |-> op, fd |-> fd, data |-> data, addr |-> addr, res |-> res]

LargeMessageSupport == platform # "other"

\* the descriptor the kernel hands out: the lowest one not in use
NewFd == CHOOSE n \in 3..(3 + Cardinality(openFds)) : n \notin openFds /\ \A m \in 3..(n - 1) : m \in openFds

\* createNonlinkedFile: memfd_create on linux; CreateTemp and Remove elsewhere
createNonlinkedFile(env) ==
    IF platform = "linux"
    THEN IF env.create = "ok"
         THEN [f |-> NewFd, err |-> NoError, trace |-> <<Ev("memfd_create", NewFd, <<>>, <<>>, "ok")>>]
         ELSE [f |-> 0, err |-> Error("memfd_create", env.create), trace |-> <<Ev("memfd_create", 0, <<>>, <<>>, env.create)>>]
    ELSE IF env.create = "ok"
         THEN [f |-> NewFd, err |-> NoError,
               trace |-> <<Ev("CreateTemp", NewFd, <<>>, <<>>, "ok"), Ev("Remove", NewFd, <<>>, <<>>, env.remove)>>]
         ELSE [f |-> 0, err |-> Error("open", env.create), trace |-> <<Ev("CreateTemp", 0, <<>>, <<>>, env.create)>>]

\* f.Write(b): all of b, or an error after a part of it
fileWrite(f, b, env) ==
    IF env.write = "ok" THEN [err |-> NoError, ev |-> Ev("write", f, b, <<>>, "ok")]
    ELSE [err |-> Error("write", env.write), ev |-> Ev("write", f, SubSeq(b, 1, Len(b) \div 2), <<>>, env.write)]

\* h.sock.WriteMsgUnix(b, oob, &h.addr); fd is the descriptor in oob, 0 for none
WriteMsgUnix(b, fd, addr, res) ==
    [err |-> IF res = "ok" THEN NoError ELSE Error("write", res), ev |-> Ev("sendmsg", fd, b, addr, res)]

sendViaFileAnyError(h, err, b, env) ==
    LET c == createNonlinkedFile(env)
        w == fileWrite(c.f, b, env)
        m == WriteMsgUnix(<<>>, c.f, h.addr, env.sendfd)
        close == <<Ev("close", c.f, <<>>, <<>>, "ok")>>
    IN  IF ~LargeMessageSupport THEN [ret |-> err, trace |-> <<>>]
        ELSE IF c.err # NoError THEN [ret |-> c.err, trace |-> c.trace]
        ELSE IF w.err # NoError THEN [ret |-> w.err, trace |-> c.trace \o <<w.ev>> \o close]
        ELSE [ret |-> m.err, trace |-> c.trace \o <<w.ev, m.ev>> \o close]

sendViaFileLeakOnWriteError(h, err, b, env) ==
    LET c == createNonlinkedFile(env)
        w == fileWrite(c.f, b, env)
        m == WriteMsgUnix(<<>>, c.f, h.addr, env.sendfd)
        close == <<Ev("close", c.f, <<>>, <<>>, "ok")>>
    IN  IF ~LargeMessageSupport THEN [ret |-> err, trace |-> <<>>]
        ELSE IF ~(errorsIs(err, "EMSGSIZE") \/ errorsIs(err, "ENOBUFS")) THEN [ret |-> err, trace |-> <<>>]
        ELSE IF c.err # NoError THEN [ret |-> c.err, trace |-> c.trace]
        ELSE IF w.err # NoError THEN [ret |-> w.err, trace |-> c.trace \o <<w.ev>>]
        ELSE [ret |-> m.err, trace |-> c.trace \o <<w.ev, m.ev>> \o close]

sendViaFileTruncated(h, err, b, env) ==
    LET c == createNonlinkedFile(env)
        w == fileWrite(c.f, SubSeq(b, 1, Len(b) - 1), env)
        m == WriteMsgUnix(<<>>, c.f, h.addr, env.sendfd)
        close == <<Ev("close", c.f, <<>>, <<>>, "ok")>>
    IN  IF ~LargeMessageSupport THEN [ret |-> err, trace |-> <<>>]
        ELSE IF ~(errorsIs(err, "EMSGSIZE") \/ errorsIs(err, "ENOBUFS")) THEN [ret |-> err, trace |-> <<>>]
        ELSE IF c.err # NoError THEN [ret |-> c.err, trace |-> c.trace]
        ELSE IF w.err # NoError THEN [ret |-> w.err, trace |-> c.trace \o <<w.ev>> \o close]
        ELSE [ret |-> m.err, trace |-> c.trace \o <<w.ev, m.ev>> \o close]

\* sendViaFileIfTooLarge of large_yes.go (darwin || unix) and of large_no.go
sendViaFileIfTooLarge(h, err, b, env) ==
    LET c == createNonlinkedFile(env)
        w == fileWrite(c.f, b, env)
        m == WriteMsgUnix(<<>>, c.f, h.addr, env.sendfd)
        close == <<Ev("close", c.f, <<>>, <<>>, "ok")>>
    IN  IF ~LargeMessageSupport THEN [ret |-> err, trace |-> <<>>]
        ELSE IF ~(errorsIs(err, "EMSGSIZE") \/ errorsIs(err, "ENOBUFS")) THEN [ret |-> err, trace |-> <<>>]
        ELSE IF c.err # NoError THEN [ret |-> c.err, trace |-> c.trace]
        ELSE IF w.err # NoError THEN [ret |-> w.err, trace |-> c.trace \o <<w.ev>> \o close]
        ELSE [ret |-> m.err, trace |-> c.trace \o <<w.ev, m.ev>> \o close]

sendEntryRetry(h, b, env) ==
    LET m == WriteMsgUnix(b, 0, h.addr, env.inline)
        m2 == WriteMsgUnix(b, 0, h.addr, "ok")
    IN  IF m.err # NoError THEN [ret |-> m2.err, trace |-> <<m.ev, m2.ev>>]
        ELSE [ret |-> NoError, trace |-> <<m.ev>>]

\* the end of Handle: the inline send and, when it fails, the fallback
sendEntry(h, b, env) ==
    LET m == WriteMsgUnix(b, 0, h.addr, env.inline)
        f == sendViaFileIfTooLarge(h, m.err, b, env)
    IN  IF m.err # NoError THEN [ret |-> f.ret, trace |-> <<m.ev>> \o f.trace]
        ELSE [ret |-> NoError, trace |-> <<m.ev>>]

\* the descriptors open after the system calls of trace
RECURSIVE FdsAfter(_, _)
FdsAfter(fds, trace) ==
    IF trace = <<>> THEN fds
    ELSE LET e == Head(trace)
             f == IF e.op \in {"memfd_create", "CreateTemp"} /\ e.res = "ok" THEN fds \cup {e.fd}
                  ELSE IF e.op = "close" THEN fds \ {e.fd}
                  ELSE fds
         IN  FdsAfter(f, Tail(trace))

-----------------------------------------------------------------------------
(* Inputs: attributes, records, options and kernel answers.                *)

Record(time, level, msg, pc, attrs) == [Time |-> time, Level |-> level, Message |-> msg, PC |-> pc, Attrs |-> attrs]

AttrA == Attr(<<"a">>, StringValue(<<"1">>))
AttrB == Attr(<<"b">>, StringValue(<<"x", " ", "y">>))
AttrEmpty == Attr(<<>>, AnyNil)
AttrReq == Attr(<<"r">>, GroupValue(<<Attr(<<"i">>, StringValue(<<"7">>))>>))
AttrInline == Attr(<<>>, GroupValue(<<Attr(<<"x">>, StringValue(<<"1">>))>>))
AttrElided == Attr(<<"e">>, GroupValue(<<AttrEmpty>>))
AttrEmptyGroup == Attr(<<"q">>, GroupValue(<<>>))
AttrTime == Attr(<<"t">>, TimeValue(Time(3, 4)))
AttrSource == Attr(<<"s">>, SourceValue(<<"f">>, 9))
AttrNil == Attr(<<"n">>, AnyNil)

\* the attribute lists WithAttrs is called with
AttrLists == {<<>>, <<AttrA>>, <<AttrReq, AttrB>>, <<AttrElided, AttrA>>}

GroupNames == {<<"g">>, <<"h">>}

PrefixStrings == {<<"z", ":", " ">>}

Records ==
    {Record(Time(17, 5), LevelInfo, <<"m">>, 1, <<>>),
     Record(ZeroTime, LevelError, <<"m">>, 1, <<AttrA, AttrB>>),
     Record(Time(0, 0), LevelDebug - 4, <<>>, 1, <<AttrReq, AttrEmpty, AttrInline>>),
     Record(ZeroTime, LevelWarn, <<"m", "\n", "n">>, 0, <<AttrEmptyGroup, AttrTime, AttrSource, AttrNil>>),
     Record(Time(-2, 5), LevelInfo, <<>>, 0, <<AttrElided, AttrA>>)}

\* one record of every level an int can hold
LevelRecords == {Record(ZeroTime, l, <<"m">>, 2, <<>>) : l \in IntMin..IntMax}

Platforms == {"linux", "unix", "other"}

OptsSmall == {NoOpts, Opts(<<LevelInfo>>, <<"p">>, RFC3339, <<"/", "s">>)}

OptsLevels == {NoOpts, Opts(<<>>, <<>>, <<>>, <<>>)} \cup {Opts(<<l>>, <<>>, <<>>, <<>>) : l \in {LevelDebug - 1, LevelInfo, LevelWarn, LevelError + 1}}

EnvOk == [inline |-> "ok", create |-> "ok", remove |-> "ok", write |-> "ok", sendfd |-> "ok"]

\* the answers of the kernel that make a difference to a send
Envs ==
    {e \in [inline : {"ok", "EMSGSIZE", "ENOBUFS", "ECONNREFUSED"}, create : {"ok", "EMFILE"}, remove : {"ok", "EPERM"},
            write : {"ok", "ENOSPC"}, sendfd : {"ok", "ECONNREFUSED"}] :
        /\ e.inline \notin {"EMSGSIZE", "ENOBUFS"} => e.create = "ok"
        /\ e.create # "ok" => e.remove = "ok"
        /\ e.create # "ok" => e.write = "ok"
        /\ e.write # "ok" => e.sendfd = "ok"}

-----------------------------------------------------------------------------
(* State and actions.                                                      *)

NoRecord == Record(ZeroTime, 0, <<>>, 0, <<>>)

NoCall == [op |-> "none", via |-> "", h |-> 0, r |-> NoRecord, level |-> 0, b |-> <<>>, trace |-> <<>>, err |-> NoError, enabled |-> FALSE, handled |-> FALSE]

\* a goroutine that is not in Handle
Idle ==
    [pc |-> "idle", h |-> 0, r |-> NoRecord, env |-> EnvOk, cachedAtStart |-> FALSE, found |-> FALSE, frames |-> 0, suffix |-> <<>>,
     buf |-> 0, n |-> 0, entry |-> <<>>, trace |-> <<>>, err |-> NoError]

InitWith(platforms, optsSet) ==
    /\ platform \in platforms
    /\ \E opts \in optsSet :
        /\ ctx = <<NewHandler(opts)>>
        /\ hist = <<[parent |-> 0, op |-> "NewHandler", opts |-> opts, bound |-> <<>>, groups |-> <<>>]>>
    /\ heapB = <<>>
    /\ heapS = <<>>
    /\ suffixCache = <<>>
    /\ openFds = {}
    /\ last = NoCall
    /\ calls = [p \in 1..MaxCalls |-> Idle]
    /\ pool = {}
    /\ mem = <<>>

Init == InitWith({"linux"}, OptsSmall)

WithAttrs(i, as, max) ==
    /\ last.op = "none"
    /\ Len(ctx) < max
    /\ \E r \in {WithAttrsResult(ctx[i], as)} :
           /\ ctx' = Append(ctx, r.h)
           /\ heapB' = r.heap
    /\ hist' = Append(hist, [hist[i] EXCEPT !.parent = i, !.op = "WithAttrs",
                                            !.bound = Append(@, [groups |-> hist[i].groups, attrs |-> as])])
    /\ UNCHANGED <<conc, platform, heapS, suffixCache, openFds, last>>

WithGroup(i, name, max) ==
    /\ last.op = "none"
    /\ Len(ctx) < max
    /\ \E r \in {WithGroupResult(ctx[i], name)} :
           /\ ctx' = Append(ctx, r.h)
           /\ heapS' = r.heap
    /\ hist' = Append(hist, [hist[i] EXCEPT !.parent = i, !.op = "WithGroup", !.groups = Append(@, name)])
    /\ UNCHANGED <<conc, platform, heapB, suffixCache, openFds, last>>

ExtendPrefix(i, str, max) ==
    /\ last.op = "none"
    /\ Len(ctx) < max
    /\ ctx' = Append(ctx, ExtendPrefixResult(ctx[i], str))
    /\ hist' = Append(hist, [hist[i] EXCEPT !.parent = i, !.op = "ExtendPrefix"])
    /\ UNCHANGED <<conc, platform, heapB, heapS, suffixCache, openFds, last>>

\* Handler.Enabled(ctx, l)
EnabledCall(i, l) ==
    /\ last.op = "none"
    /\ last' = [NoCall EXCEPT !.op = "Enabled", !.h = i, !.level = l, !.enabled = Enabled(ctx[i], l)]
    /\ UNCHANGED <<conc, platform, ctx, heapB, heapS, hist, suffixCache, openFds>>

HandleVia(via, i, r, env) ==
    /\ last.op = "none"
    /\ \E b \in {encodeEntry(ctx[i], r, suffixFor(suffixCache, r.PC))} : \E s \in {sendEntry(ctx[i], b, env)} :
        /\ last' = [NoCall EXCEPT !.op = "Handle", !.via = via, !.h = i, !.r = r, !.level = r.Level, !.b = b,
                                  !.trace = s.trace, !.err = s.ret, !.handled = TRUE]
        /\ suffixCache' = cacheAfter(suffixCache, r.PC)
        /\ openFds' = FdsAfter(openFds, s.trace)
        /\ UNCHANGED <<conc, platform, ctx, heapB, heapS, hist>>

\* Handler.Handle(ctx, r), called directly
Handle(i, r, env) == HandleVia("direct", i, r, env)

\* a call through slog.Logger, which asks Enabled before it calls Handle
Log(i, r, env) ==
    IF Enabled(ctx[i], r.Level)
    THEN HandleVia("Logger", i, r, env)
    ELSE /\ last.op = "none"
         /\ last' = [NoCall EXCEPT !.op = "Discard", !.via = "Logger", !.h = i, !.r = r, !.level = r.Level]
         /\ UNCHANGED <<conc, platform, ctx, heapB, heapS, hist, suffixCache, openFds>>

\* the caller has the result of a call and goes on
Return ==
    /\ last.op # "none"
    /\ last' = NoCall
    /\ UNCHANGED <<conc, platform, ctx, heapB, heapS, hist, suffixCache, openFds>>

Derive(max) ==
    \E i \in 1..Len(ctx) :
        \/ \E as \in AttrLists : WithAttrs(i, as, max)
        \/ \E name \in GroupNames : WithGroup(i, name, max)
        \/ \E str \in PrefixStrings : ExtendPrefix(i, str, max)

\* derivation and encoding: every Handler handles every record
Next ==
    \/ Derive(MaxChain)
    \/ \E i \in 1..Len(ctx), r \in Records : Handle(i, r, EnvOk)
    \/ Return

Spec == Init /\ [][Next]_vars

\* derivation alone
NextDerive == Derive(MaxHandlers)

SpecDerive == Init /\ [][NextDerive]_vars

\* the transport: every answer of the kernel, on every platform
InitTransport == InitWith(Platforms, OptsSmall)

NextTransport ==
    \/ \E r \in Records, env \in Envs : Handle(1, r, env)
    \/ Return

SpecTransport == InitTransport /\ [][NextTransport]_vars

\* the priority of every level
NextPriority ==
    \/ \E r \in LevelRecords : Handle(1, r, EnvOk)
    \/ Return

SpecPriority == Init /\ [][NextPriority]_vars

\* the severity floor: Enabled, direct calls of Handle and calls through a Logger
InitFloor == InitWith({"linux"}, OptsLevels)

FloorRecords == {Record(ZeroTime, l, <<"m">>, 1, <<>>) : l \in (LevelDebug - 2)..(LevelError + 2)}

NextFloor ==
    \/ \E l \in (LevelDebug - 2)..(LevelError + 2) : EnabledCall(1, l)
    \/ \E r \in FloorRecords, env \in {EnvOk, [EnvOk EXCEPT !.inline = "ECONNREFUSED"]} : Handle(1, r, env)
    \/ \E r \in FloorRecords, env \in {EnvOk, [EnvOk EXCEPT !.inline = "ECONNREFUSED"]} : Log(1, r, env)
    \/ Return

SpecFloor == InitFloor /\ [][NextFloor]_vars

-----------------------------------------------------------------------------
(* What is observed of a Handler and of an entry.                          *)

\* the fields of Handler i that derivation works on, slices by their contents
View(i) ==
    [preformattedAttrs |-> Elems(heapB, ctx[i].preformattedAttrs),
     groups |-> Elems(heapS, ctx[i].groups),
     nOpenGroups |-> ctx[i].nOpenGroups,
     groupPrefix |-> ctx[i].groupPrefix,
     msgPrefix |-> ctx[i].msgPrefix]

\* the value of 8 little-endian bytes, as a receiver reads it
RECURSIVE Uint64(_)
Uint64(bytes) == IF bytes = <<>> THEN 0 ELSE ByteVal(Head(bytes)) + 256 * Uint64(Tail(bytes))

\* the length of "PRIORITY=n\nMESSAGE\n"
PreambleLen == 19

\* an entry as its receiver parses it: the declared length, the message of
\* that length, and what follows it
DeclaredLen(b) == Uint64(SubSeq(b, PreambleLen + 1, PreambleLen + 8))
MessageOf(b) == SubSeq(b, PreambleLen + 9, PreambleLen + 8 + DeclaredLen(b))
AfterMessage(b) == SubSeq(b, PreambleLen + 9 + DeclaredLen(b), Len(b))

IsPrefixOf(p, s) == Len(p) <= Len(s) /\ SubSeq(s, 1, Len(p)) = p

-----------------------------------------------------------------------------
(* The attributes a Handler was bound with, rendered from its history.     *)

Quoted(str) == IF needsQuoting(str) THEN AppendQuote(str) ELSE str

RefValue(v, layout) ==
    IF v.Kind = "String" THEN v.str
    ELSE IF v.Kind = "Time" THEN FormatTime(v.time, layout)
    ELSE IF v.Kind = "Source" THEN v.File \o <<":">> \o Itoa(v.Line)
    ELSE <<"<","n","i","l",">">>

\* the key=value fragments of the attributes as, under the dotted path
RECURSIVE RefFrags(_, _, _)
RefFrags(path, as, layout) ==
    IF as = <<>> THEN <<>>
    ELSE LET a == Head(as)
             first == IF IsEmptyAttr(a) THEN <<>>
                      ELSE IF a.Value.Kind = "Group"
                      THEN RefFrags(IF a.Key = <<>> THEN path ELSE path \o a.Key \o <<".">>, a.Value.group, layout)
                      ELSE <<Quoted(path \o a.Key) \o <<"=">> \o Quoted(RefValue(a.Value, layout))>>
         IN  first \o RefFrags(path, Tail(as), layout)

DotJoin(names) == Flatten([k \in 1..Len(names) |-> names[k] \o <<".">>])

RefLayout(i) == IF hist[i].opts.set /\ hist[i].opts.TimeFormat # <<>> THEN hist[i].opts.TimeFormat ELSE RFC3339Nano

\* every attribute bound to Handler i, in binding order, each under the groups
\* that were open when it was bound; then those of record r under all groups
RefAttrs(i, r) ==
    Flatten([k \in 1..Len(hist[i].bound) |-> RefFrags(DotJoin(hist[i].bound[k].groups), hist[i].bound[k].attrs, RefLayout(i))])
    \o RefFrags(DotJoin(hist[i].groups), r.Attrs, RefLayout(i))

\* str without the bytes separators are made of
StripSep(str) == SelectSeq(str, LAMBDA c : c \notin {" ", ":"})

\* the message of the last entry after the message prefix and the record's text
AttrsOfLast ==
    LET m == MessageOf(last.b)
    IN  SubSeq(m, Len(ctx[last.h].msgPrefix) + Len(last.r.Message) + 1, Len(m))

-----------------------------------------------------------------------------
(* Claims.                                                                 *)

\* C1: deriving a new Handler (WithAttrs, WithGroup, ExtendPrefix) leaves every
\* Handler that already exists unchanged in the contents of its pre-rendered
\* buffer, its open groups, its count of reflected groups, its group prefix
\* and its message prefix; siblings never see each other's appended bytes.
C1_DerivationLeavesOthersUnchanged == [][\A i \in 1..Len(ctx) : View(i)' = View(i)]_vars

\* two siblings that both appended bytes to the buffer of a parent whose
\* backing array had room to spare
C1_Witness ==
    \E i, j \in 1..Len(ctx) :
        /\ i < j
        /\ hist[i].parent = hist[j].parent
        /\ hist[i].parent > 0
        /\ hist[i].op = "WithAttrs" /\ hist[j].op = "WithAttrs"
        /\ LET p == ctx[hist[i].parent].preformattedAttrs
           IN  /\ p.len > 0 /\ p.cap > p.len
               /\ ctx[i].preformattedAttrs.len > p.len
               /\ ctx[j].preformattedAttrs.len > p.len
               /\ View(i).preformattedAttrs # View(j).preformattedAttrs

C3_LengthIsMessageLength ==
    last.op = "Handle" =>
        LET h == ctx[last.h]
            pre == Elems(heapB, h.preformattedAttrs)
        IN  /\ SubSeq(last.b, PreambleLen - 7, PreambleLen) = <<"M","E","S","S","A","G","E","\n">>
            /\ AfterMessage(last.b) = FormatSuffix(Frame(last.r.PC)) \o SyslogTimestamp(last.r)
            /\ IsPrefixOf(<<"\n","C","O","D","E","_","F","I","L","E","=">>, AfterMessage(last.b))
            /\ IsPrefixOf(h.msgPrefix \o last.r.Message, MessageOf(last.b))
            /\ pre # <<>> => IsPrefixOf(h.msgPrefix \o last.r.Message \o <<":", " ">> \o pre, MessageOf(last.b))

\* an entry with a message prefix, pre-rendered attributes and a quoted record attribute
C3_Witness ==
    /\ last.op = "Handle"
    /\ ctx[last.h].msgPrefix # <<>>
    /\ ctx[last.h].preformattedAttrs.len > 0
    /\ \E k \in 1..Len(last.r.Attrs) : last.r.Attrs[k] = AttrB
    /\ DeclaredLen(last.b) > Len(ctx[last.h].msgPrefix) + Len(last.r.Message) + ctx[last.h].preformattedAttrs.len

-----------------------------------------------------------------------------
(* Priorities.                                                             *)

\* the digit of the PRIORITY field of an entry
PriorityOf(b) == CHOOSE d \in 0..9 : Digits[d + 1] = b[10]

\* whether level - LevelDebug fits an int
OffsetFits(level) == level - LevelDebug <= IntMax

\* C4: for every level the priority of the entry is in 0..7, no level above
\* another has a higher priority number, and LevelDebug, LevelInfo,
\* LevelNotice, LevelWarn, LevelError, LevelCrit and LevelAlert give 7, 6, 5,
\* 4, 3, 2 and 1.
C4_PriorityMonotone ==
    last.op = "Handle" =>
        LET p == PriorityOf(last.b)
            l == last.level
        IN  /\ p \in 0..7
            /\ \A l2 \in IntMin..IntMax : l2 <= l => PriorityOf(levelPrefix(l2)) >= p
            /\ l = LevelDebug => p = 7
            /\ l = LevelInfo => p = 6
            /\ l = LevelNotice => p = 5
            /\ l = LevelWarn => p = 4
            /\ l = LevelError => p = 3
            /\ l = LevelCrit => p = 2
            /\ l = LevelAlert => p = 1

\* C5, as claimed: a level below LevelDebug gives priority 7 and a level above
\* the last tier of the table gives priority 0.
C5_ClampedToZero ==
    last.op = "Handle" =>
        /\ last.level < LevelDebug => PriorityOf(last.b) = 7
        /\ last.level > LevelCrit => PriorityOf(last.b) = 0

\* C5, amended: a level below LevelDebug gives priority 7; a level above
\* LevelCrit, the last tier of the table, gives priority 1 as long as
\* level - LevelDebug fits an int, and 7 where it wraps around; no level gives
\* priority 0.
C5_ClampedToAlert ==
    last.op = "Handle" =>
        /\ last.level < LevelDebug => PriorityOf(last.b) = 7
        /\ last.level > LevelCrit /\ OffsetFits(last.level) => PriorityOf(last.b) = 1
        /\ ~OffsetFits(last.level) => PriorityOf(last.b) = 7
        /\ PriorityOf(last.b) # 0

\* an entry of a level above LevelAlert, and so above every tier
C5_Witness == last.op = "Handle" /\ last.level > LevelAlert /\ OffsetFits(last.level) /\ PriorityOf(last.b) = 1

-----------------------------------------------------------------------------
(* The transport.                                                          *)

SizeErrors == {"EMSGSIZE", "ENOBUFS"}

Creates(tr) == {k \in 1..Len(tr) : tr[k].op \in {"memfd_create", "CreateTemp"}}
InlineSends(tr) == {k \in 1..Len(tr) : tr[k].op = "sendmsg" /\ tr[k].fd = 0}
FdSends(tr) == {k \in 1..Len(tr) : tr[k].op = "sendmsg" /\ tr[k].fd # 0}
Closes(tr, fd) == {k \in 1..Len(tr) : tr[k].op = "close" /\ tr[k].fd = fd}

\* what the file behind fd holds after the first k system calls of tr
RECURSIVE FileContents(_, _, _)
FileContents(tr, fd, k) ==
    IF k = 0 THEN <<>>
    ELSE FileContents(tr, fd, k - 1) \o (IF tr[k].op = "write" /\ tr[k].fd = fd THEN tr[k].data ELSE <<>>)

\* the entries the receiver got: the body of a datagram that arrived, or the
\* contents of the file whose descriptor arrived
Received(tr) ==
    [k \in {j \in 1..Len(tr) : tr[j].op = "sendmsg" /\ tr[j].res = "ok"} |->
        IF tr[k].fd = 0 THEN tr[k].data ELSE FileContents(tr, tr[k].fd, k)]

\* C6: with descriptor passing, the fallback (file creation, second send) is
\* attempted exactly when the inline send failed with EMSGSIZE or ENOBUFS; any
\* other failure of the inline send is returned as it is, with no file and no
\* further send; a failure to create or to write the file is returned and no
\* datagram with a descriptor is sent.
C6_FallbackOnlyForSize ==
    last.op = "Handle" /\ platform # "other" =>
        LET tr == last.trace
        IN  /\ InlineSends(tr) = {1}
            /\ Creates(tr) # {} <=> tr[1].res \in SizeErrors
            /\ FdSends(tr) # {} => tr[1].res \in SizeErrors
            /\ tr[1].res \notin SizeErrors \cup {"ok"} => last.err = Error("write", tr[1].res) /\ Len(tr) = 1
            /\ \A k \in 1..Len(tr) :
                tr[k].op \in {"memfd_create", "CreateTemp", "write"} /\ tr[k].res # "ok"
                    => last.err.Err = tr[k].res /\ FdSends(tr) = {}

\* an inline send that failed for size, then a write to the file that failed
C6_Witness ==
    /\ last.op = "Handle" /\ platform = "unix"
    /\ last.trace[1].res = "ENOBUFS"
    /\ \E k \in 1..Len(last.trace) : last.trace[k].op = "write" /\ last.trace[k].res = "ENOSPC"
    /\ last.err = Error("write", "ENOSPC")

\* C7: when the inline send failed for size and the fallback succeeded, one
\* file was created, it holds the bytes of the entry, one datagram with an
\* empty body and the file's descriptor went to the same address, and Handle
\* returned nil.
C7_FallbackDeliversEntry ==
    last.op = "Handle" /\ last.trace[1].res \in SizeErrors /\ (\E k \in FdSends(last.trace) : last.trace[k].res = "ok") =>
        LET tr == last.trace
        IN  /\ Cardinality(Creates(tr)) = 1
            /\ Cardinality(FdSends(tr)) = 1
            /\ \A k \in FdSends(tr) :
                /\ \E c \in Creates(tr) : c < k /\ tr[c].fd = tr[k].fd
                /\ tr[k].data = <<>>
                /\ tr[k].addr = tr[1].addr /\ tr[k].addr = ctx[last.h].addr
                /\ FileContents(tr, tr[k].fd, Len(tr)) = last.b
                /\ FileContents(tr, tr[k].fd, k) = last.b
            /\ last.err = NoError

\* a fallback that succeeded
C7_Witness ==
    /\ last.op = "Handle" /\ last.trace[1].res = "EMSGSIZE"
    /\ \E k \in FdSends(last.trace) : last.trace[k].res = "ok"
    /\ last.err = NoError /\ Len(last.b) > 0

\* C8: once the fallback file exists, its descriptor is closed exactly once
\* before the send returns, on every path; no descriptor of a fallback file is
\* open after a Handle call has returned.
C8_DescriptorClosedOnce ==
    /\ openFds = {}
    /\ last.op = "Handle" =>
        \A c \in Creates(last.trace) :
            last.trace[c].res = "ok" =>
                /\ Cardinality(Closes(last.trace, last.trace[c].fd)) = 1
                /\ Closes(last.trace, last.trace[c].fd) = {Len(last.trace)}

\* a fallback whose write failed, after an earlier Handle call had used the fallback too
C8_Witness ==
    /\ last.op = "Handle"
    /\ \E k \in 1..Len(last.trace) : last.trace[k].op = "write" /\ last.trace[k].res # "ok"
    /\ \E c \in Creates(last.trace) : last.trace[c].res = "ok"
    /\ suffixCache # <<>> /\ Cardinality(DOMAIN suffixCache) > 1

\* C10: a Handle call makes one inline send and at most one send of a
\* descriptor, the second only after the first failed for size; either the
\* receiver got the whole entry exactly once and Handle returned nil, or it got
\* nothing and Handle returned an error.
C10_AllOrNothing ==
    last.op = "Handle" =>
        LET tr == last.trace
            got == Received(tr)
        IN  /\ Cardinality(InlineSends(tr)) = 1
            /\ Cardinality(FdSends(tr)) <= 1
            /\ FdSends(tr) # {} => tr[1].res \in SizeErrors
            /\ \/ last.err = NoError /\ Cardinality(DOMAIN got) = 1 /\ \A k \in DOMAIN got : got[k] = last.b
               \/ last.err # NoError /\ DOMAIN got = {}

\* a fallback whose send of the descriptor failed: nothing received, an error returned
C10_Witness ==
    /\ last.op = "Handle"
    /\ \E k \in FdSends(last.trace) : last.trace[k].res # "ok"
    /\ last.err # NoError
    /\ DOMAIN Received(last.trace) = {}

-----------------------------------------------------------------------------
(* The severity floor.                                                     *)

\* the floor Handler i was configured with
Floor(i) == IF hist[i].opts.set /\ hist[i].opts.Level # <<>> THEN hist[i].opts.Level[1] ELSE LevelDebug

-----------------------------------------------------------------------------
(* The fields of an entry, as journald reads them.                         *)

\* str cut at every newline; the last piece is what follows the last newline
RECURSIVE SplitLines(_)
SplitLines(str) ==
    IF \A k \in 1..Len(str) : str[k] # "\n" THEN <<str>>
    ELSE LET k == CHOOSE k \in 1..Len(str) : str[k] = "\n" /\ \A j \in 1..(k - 1) : str[j] # "\n"
         IN  <<SubSeq(str, 1, k - 1)>> \o SplitLines(SubSeq(str, k + 1, Len(str)))

\* the name and the value of a line NAME=value
FieldName(line) ==
    IF \A k \in 1..Len(line) : line[k] # "=" THEN line
    ELSE SubSeq(line, 1, (CHOOSE k \in 1..Len(line) : line[k] = "=" /\ \A j \in 1..(k - 1) : line[j] # "=") - 1)

FieldValue(line) == SubSeq(line, Len(FieldName(line)) + 2, Len(line))

\* the decimal number a text stands for
RECURSIVE ParseUint(_)
ParseUint(str) ==
    IF str = <<>> THEN 0
    ELSE 10 * ParseUint(SubSeq(str, 1, Len(str) - 1)) + (CHOOSE d \in 0..9 : Digits[d + 1] = str[Len(str)])

ParseInt(str) == IF str # <<>> /\ str[1] = "-" THEN -ParseUint(Tail(str)) ELSE ParseUint(str)

\* the lines after the message of an entry: an empty one (the newline that
\* ends the message), the fields, and an empty one after the last newline
TrailerLines(b) == SplitLines(AfterMessage(b))

\* the names of the fields of an entry, in order
FieldNames(b) ==
    <<FieldName(SubSeq(b, 1, PreambleLen - 9)), SubSeq(b, PreambleLen - 7, PreambleLen - 1)>>
    \o [k \in 1..(Len(TrailerLines(b)) - 2) |-> FieldName(TrailerLines(b)[k + 1])]

\* C11: an entry has the field SYSLOG_TIMESTAMP exactly when the record's time
\* is not the zero time; the field is then the last one and its value is the
\* time's whole seconds since the epoch; the fields before it are PRIORITY,
\* MESSAGE, CODE_FILE, CODE_LINE and CODE_FUNC, in this order.
C11_TimestampIffNonZero ==
    last.op = "Handle" =>
        LET lines == TrailerLines(last.b)
            names == FieldNames(last.b)
            fixed == <<<<"P","R","I","O","R","I","T","Y">>, <<"M","E","S","S","A","G","E">>, <<"C","O","D","E","_","F","I","L","E">>, <<"C","O","D","E","_","L","I","N","E">>, <<"C","O","D","E","_","F","U","N","C">>>>
        IN  /\ lines[1] = <<>> /\ lines[Len(lines)] = <<>>
            /\ names = fixed \o (IF last.r.Time.zero THEN <<>> ELSE <<<<"S","Y","S","L","O","G","_","T","I","M","E","S","T","A","M","P">>>>)
            /\ ~last.r.Time.zero => ParseInt(FieldValue(lines[Len(lines) - 1])) = last.r.Time.sec

\* an entry of a record whose time lies before the epoch and has a fraction
\* of a second
C11_Witness ==
    /\ last.op = "Handle"
    /\ ~last.r.Time.zero
    /\ last.r.Time.sec < 0
    /\ last.r.Time.nsec # 0
    /\ Len(FieldNames(last.b)) = 6

-----------------------------------------------------------------------------
(* Message prefixes.                                                       *)

\* every field of a Handler but its message prefix, slices by their contents
\* in the heaps hb (bytes) and hs (strings)
OtherFields(h, hb, hs) ==
    [preformattedAttrs |-> Elems(hb, h.preformattedAttrs),
     groups |-> Elems(hs, h.groups),
     nOpenGroups |-> h.nOpenGroups,
     groupPrefix |-> h.groupPrefix,
     level |-> h.level,
     sock |-> h.sock,
     addr |-> h.addr,
     timeFormat |-> h.timeFormat]

\* the message of an entry starts with the Handler's message prefix and the
\* record's text as it is; for a Handler made by ExtendPrefix that prefix is
\* the parent's followed by the extension
MessageStartsWithPrefix ==
    last.op = "Handle" =>
        /\ IsPrefixOf(ctx[last.h].msgPrefix \o last.r.Message, MessageOf(last.b))
        /\ hist[last.h].op = "ExtendPrefix" =>
               \E str \in PrefixStrings :
                   IsPrefixOf(ctx[hist[last.h].parent].msgPrefix \o str \o last.r.Message, MessageOf(last.b))

\* a call of ExtendPrefix: the new Handler has the parent's prefix followed by
\* the extension and the parent's other fields; no Handler that existed changes
ExtendPrefixStep ==
    (Len(ctx') = Len(ctx) + 1 /\ hist'[Len(ctx')].op = "ExtendPrefix") =>
        LET n == Len(ctx')
            i == hist'[n].parent
        IN  /\ \E str \in PrefixStrings : ctx'[n].msgPrefix = ctx[i].msgPrefix \o str
            /\ OtherFields(ctx'[n], heapB', heapS') = OtherFields(ctx[i], heapB, heapS)
            /\ \A j \in 1..Len(ctx) : ctx'[j].msgPrefix = ctx[j].msgPrefix /\ OtherFields(ctx'[j], heapB', heapS') = OtherFields(ctx[j], heapB, heapS)

\* C12: ExtendPrefix(s) returns a Handler whose message prefix is the parent's
\* followed by s, so each of its messages starts with the parent's prefix, s
\* and the record's text unescaped; the call changes neither the parent nor
\* any other field (attributes, groups, floor, destination) in the new Handler.
C12_ExtendPrefixAppends == []MessageStartsWithPrefix /\ [][ExtendPrefixStep]_vars

\* a message with a newline in it, sent by a Handler whose prefix was extended
\* from a parent that had a prefix and bound attributes
C12_Witness ==
    /\ last.op = "Handle"
    /\ hist[last.h].op = "ExtendPrefix"
    /\ ctx[hist[last.h].parent].msgPrefix # <<>>
    /\ ctx[last.h].preformattedAttrs.len > 0
    /\ \E k \in 1..Len(last.r.Message) : last.r.Message[k] = "\n"

-----------------------------------------------------------------------------
(* The separator between the message and the attributes.                   *)

\* the message so far when Handle comes to the attributes
MessageSoFar == ctx[last.h].msgPrefix \o last.r.Message

\* C13 as stated: the pre-rendered attributes follow a separator when the
\* message so far is not empty, and start the payload, with no separator, when
\* it is empty.
C13_SeparatorUnlessEmpty ==
    (last.op = "Handle" /\ ctx[last.h].preformattedAttrs.len > 0) =>
        LET pre == Elems(heapB, ctx[last.h].preformattedAttrs)
        IN  /\ MessageSoFar # <<>> => IsPrefixOf(MessageSoFar \o <<":", " ">> \o pre, MessageOf(last.b))
            /\ MessageSoFar = <<>> => IsPrefixOf(pre, MessageOf(last.b))

\* C13: in Handle the pre-rendered attributes, when there are any, always
\* follow the separator ": ", whether the message so far is empty or not; with
\* no pre-rendered and no record attributes the message is the message so far.
C13_SeparatorAlways ==
    last.op = "Handle" =>
        LET pre == Elems(heapB, ctx[last.h].preformattedAttrs)
        IN  /\ pre # <<>> => IsPrefixOf(MessageSoFar \o <<":", " ">> \o pre, MessageOf(last.b))
            /\ (pre = <<>> /\ last.r.Attrs = <<>>) => MessageOf(last.b) = MessageSoFar

\* an entry with pre-rendered attributes and neither message prefix nor text
C13_Witness ==
    /\ last.op = "Handle"
    /\ ctx[last.h].preformattedAttrs.len > 0
    /\ MessageSoFar = <<>>
    /\ IsPrefixOf(<<":", " ">>, MessageOf(last.b))

-----------------------------------------------------------------------------
(* Concurrent calls of Handle, statement by statement.  Each goroutine is  *)
(* at one position (pc) of Handle; a step runs the statement there.  The   *)
(* buffer of the key prefix is, as in newHandleState above, a value of the *)
(* call's own; the pool is followed for the buffers of entries.            *)

\* suffixCache.Load(r.PC)
cacheLoad(cache, pc) == [found |-> pc \in DOMAIN cache, value |-> IF pc \in DOMAIN cache THEN cache[pc] ELSE <<>>]

\* a cache that keeps the newest entry only
cacheStoreEvicting(cache, pc, suffix) == [k \in {pc} |-> suffix]

\* suffixCache.Store(r.PC, suffix)
cacheStore(cache, pc, suffix) == [k \in DOMAIN cache \cup {pc} |-> IF k = pc THEN suffix ELSE cache[k]]

\* newBuffer(): a buffer of the pool or, when the pool is empty (and up to
\* MaxBuffers also when it is not), a buffer made new
newBufferChoices(free, m) == free \cup (IF free = {} \/ Len(m) < MaxBuffers THEN {Len(m) + 1} ELSE {})

\* the backing arrays once buffer b exists
memWith(m, b) == IF b > Len(m) THEN Append(m, <<>>) ELSE m

\* a backing array after bytes were written from its start: what lay beyond
\* them stays
Overwrite(old, bytes) == bytes \o SubSeq(old, Len(bytes) + 1, Len(old))

\* the buffers given back before the send
stepAfterFreeFirst(pc, c) ==
    IF pc = "Begin" THEN "Load"
    ELSE IF pc = "Load" THEN (IF c.found THEN "NewBuffer" ELSE "Frames")
    ELSE IF pc = "Frames" THEN "Store"
    ELSE IF pc = "Store" THEN "NewBuffer"
    ELSE IF pc = "NewBuffer" THEN "Encode"
    ELSE IF pc = "Encode" THEN "Free"
    ELSE IF pc = "Free" THEN "Send"
    ELSE IF pc = "Send" THEN (IF c.err # NoError THEN "SendViaFile" ELSE "Return")
    ELSE IF pc = "SendViaFile" THEN "Return"
    ELSE "idle"

\* the order of the statements of Handle: the position after the one at pc,
\* for the call c as that statement left it; the deferred state.free() runs
\* when the send has returned
stepAfter(pc, c) ==
    IF pc = "Begin" THEN "Load"
    ELSE IF pc = "Load" THEN (IF c.found THEN "NewBuffer" ELSE "Frames")
    ELSE IF pc = "Frames" THEN "Store"
    ELSE IF pc = "Store" THEN "NewBuffer"
    ELSE IF pc = "NewBuffer" THEN "Encode"
    ELSE IF pc = "Encode" THEN "Send"
    ELSE IF pc = "Send" THEN (IF c.err # NoError THEN "SendViaFile" ELSE "Free")
    ELSE IF pc = "SendViaFile" THEN "Free"
    ELSE IF pc = "Free" THEN "Return"
    ELSE "idle"

\* calls with goroutine p at the position after pc, its call being c
Advance(p, pc, c) == [calls EXCEPT ![p] = [c EXCEPT !.pc = stepAfter(pc, c)]]

\* Handle is called with record r on Handler i
Begin(p, i, r) ==
    /\ calls[p].pc = "idle"
    /\ calls' = Advance(p, "Begin", [Idle EXCEPT !.h = i, !.r = r, !.cachedAtStart = r.PC \in DOMAIN suffixCache])
    /\ UNCHANGED <<platform, ctx, heapB, heapS, hist, suffixCache, openFds, last, pool, mem>>

\* if x, found := suffixCache.Load(r.PC); found { suffix = x.(string) }
Load(p) ==
    /\ calls[p].pc = "Load"
    /\ \E l \in {cacheLoad(suffixCache, calls[p].r.PC)} :
           calls' = Advance(p, "Load", [calls[p] EXCEPT !.suffix = l.value, !.found = l.found])
    /\ UNCHANGED <<platform, ctx, heapB, heapS, hist, suffixCache, openFds, last, pool, mem>>

\* f, _ := runtime.CallersFrames(...).Next(); suffix = fmt.Sprintf(...)
Frames(p) ==
    /\ calls[p].pc = "Frames"
    /\ calls' = Advance(p, "Frames", [calls[p] EXCEPT !.suffix = FormatSuffix(Frame(calls[p].r.PC)), !.frames = @ + 1])
    /\ UNCHANGED <<platform, ctx, heapB, heapS, hist, suffixCache, openFds, last, pool, mem>>

\* suffixCache.Store(r.PC, suffix)
Store(p) ==
    /\ calls[p].pc = "Store"
    /\ suffixCache' = cacheStore(suffixCache, calls[p].r.PC, calls[p].suffix)
    /\ calls' = Advance(p, "Store", calls[p])
    /\ UNCHANGED <<platform, ctx, heapB, heapS, hist, openFds, last, pool, mem>>

\* state := h.newHandleState(newBuffer(), true, "")
NewBuffer(p) ==
    /\ calls[p].pc = "NewBuffer"
    /\ \E b \in newBufferChoices(pool, mem) :
           /\ calls' = Advance(p, "NewBuffer", [calls[p] EXCEPT !.buf = b])
           /\ pool' = pool \ {b}
           /\ mem' = memWith(mem, b)
    /\ UNCHANGED <<platform, ctx, heapB, heapS, hist, suffixCache, openFds, last>>

\* the writes to state.buf up to the patch of the length; b := *state.buf
Encode(p) ==
    /\ calls[p].pc = "Encode"
    /\ \E b \in {encodeEntry(ctx[calls[p].h], calls[p].r, calls[p].suffix)} :
           /\ mem' = [mem EXCEPT ![calls[p].buf] = Overwrite(@, b)]
           /\ calls' = Advance(p, "Encode", [calls[p] EXCEPT !.n = Len(b), !.entry = b])
    /\ UNCHANGED <<platform, ctx, heapB, heapS, hist, suffixCache, openFds, last, pool>>

\* the answers of the kernel to the inline send of a concurrent call
ConcEnvs == {EnvOk, [EnvOk EXCEPT !.inline = "EMSGSIZE"]}

\* the bytes of b: the first n of the buffer's backing array, as they are now
Bytes(c) == SubSeq(mem[c.buf], 1, c.n)

\* h.sock.WriteMsgUnix(b, nil, &h.addr), with the answer of the kernel
Send(p) ==
    /\ calls[p].pc = "Send"
    /\ \E env \in ConcEnvs :
           \E m \in {WriteMsgUnix(Bytes(calls[p]), 0, ctx[calls[p].h].addr, env.inline)} :
               calls' = Advance(p, "Send", [calls[p] EXCEPT !.env = env, !.trace = <<m.ev>>, !.err = m.err])
    /\ UNCHANGED <<platform, ctx, heapB, heapS, hist, suffixCache, openFds, last, pool, mem>>

\* return h.sendViaFileIfTooLarge(err, b)
SendViaFile(p) ==
    /\ calls[p].pc = "SendViaFile"
    /\ \E f \in {sendViaFileIfTooLarge(ctx[calls[p].h], calls[p].err, Bytes(calls[p]), calls[p].env)} :
           /\ calls' = Advance(p, "SendViaFile", [calls[p] EXCEPT !.trace = @ \o f.trace, !.err = f.ret])
           /\ openFds' = FdsAfter(openFds, f.trace)
    /\ UNCHANGED <<platform, ctx, heapB, heapS, hist, suffixCache, last, pool, mem>>

\* defer state.free(): s.buf.Free()
Free(p) ==
    /\ calls[p].pc = "Free"
    /\ pool' = pool \cup {calls[p].buf}
    /\ calls' = Advance(p, "Free", calls[p])
    /\ UNCHANGED <<platform, ctx, heapB, heapS, hist, suffixCache, openFds, last, mem>>

\* Handle returns to its caller
ReturnCall(p) ==
    /\ calls[p].pc = "Return"
    /\ calls' = [calls EXCEPT ![p] = Idle]
    /\ UNCHANGED <<platform, ctx, heapB, heapS, hist, suffixCache, openFds, last, pool, mem>>

\* Handle from the top down to the look-up in the cache, in one step
BeginLookedUp(p, i, r) ==
    /\ calls[p].pc = "idle"
    /\ calls' = [calls EXCEPT ![p] = [Idle EXCEPT !.pc = "NewBuffer", !.h = i, !.r = r,
                                                  !.suffix = suffixFor(suffixCache, r.PC)]]
    /\ suffixCache' = cacheAfter(suffixCache, r.PC)
    /\ UNCHANGED <<platform, ctx, heapB, heapS, hist, openFds, last, pool, mem>>

\* Handle from newHandleState down to its return, in one step
Finish(p) ==
    /\ calls[p].pc = "NewBuffer"
    /\ \E env \in ConcEnvs :
           \E b \in {encodeEntry(ctx[calls[p].h], calls[p].r, calls[p].suffix)} : \E s \in {sendEntry(ctx[calls[p].h], b, env)} :
               /\ calls' = [calls EXCEPT ![p] = [@ EXCEPT !.pc = "Return", !.env = env, !.n = Len(b), !.entry = b, !.trace = s.trace, !.err = s.ret]]
               /\ openFds' = FdsAfter(openFds, s.trace)
    /\ UNCHANGED <<platform, ctx, heapB, heapS, hist, suffixCache, last, pool, mem>>

-----------------------------------------------------------------------------
(* Specifications of concurrent calls.                                     *)

\* the records of the concurrent calls: two call sites
ConcRecords ==
    {Record(ZeroTime, LevelInfo, <<"m">>, 1, <<>>),
     Record(Time(17, 5), LevelError, <<"n", "n">>, 2, <<AttrA>>)}

InitConcurrent == InitWith({"linux"}, {Opts(<<>>, <<"p">>, <<>>, <<>>)})

\* one Handler is derived from the first, also while calls are in progress
DeriveOne == WithAttrs(1, <<AttrB>>, 2)

\* the record of the calls that share the buffer pool: its entry differs from
\* Handler to Handler
BufRecords == {Record(ZeroTime, LevelInfo, <<"m">>, 1, <<AttrA>>)}

DeriveGroup == WithGroup(1, <<"g">>, 2)

\* the call-site cache: the look-up statement by statement, the rest at once
NextCache ==
    \/ DeriveOne
    \/ \E p \in 1..MaxCalls :
        \/ \E i \in 1..Len(ctx), r \in ConcRecords : Begin(p, i, r)
        \/ Load(p)
        \/ Frames(p)
        \/ Store(p)
        \/ Finish(p)
        \/ ReturnCall(p)

SpecCache == InitConcurrent /\ [][NextCache]_vars

\* the buffers: the look-up at once, the rest statement by statement
NextBuffers ==
    \/ DeriveGroup
    \/ \E p \in 1..MaxCalls :
        \/ \E i \in 1..Len(ctx), r \in BufRecords : BeginLookedUp(p, i, r)
        \/ NewBuffer(p)
        \/ Encode(p)
        \/ Send(p)
        \/ SendViaFile(p)
        \/ Free(p)
        \/ ReturnCall(p)

SpecBuffers == InitConcurrent /\ [][NextBuffers]_vars

-----------------------------------------------------------------------------
(* Claims about concurrent calls.                                          *)

\* the call of goroutine p has its suffix: it is past the look-up
HasSuffix(p) == calls[p].pc \in {"Store", "NewBuffer", "Return"}

\* what the call-site cache holds is never removed and never changed
CacheOnlyGrows == \A k \in DOMAIN suffixCache : k \in DOMAIN suffixCache' /\ suffixCache'[k] = suffixCache[k]

\* the suffix of a call is that of its program counter, the same in every call
\* and in the cache; a call that found the entry stored when it started has
\* not computed it
SuffixOfCallSite ==
    /\ \A k \in DOMAIN suffixCache : suffixCache[k] = FormatSuffix(Frame(k))
    /\ \A p, q \in 1..MaxCalls :
           (HasSuffix(p) /\ HasSuffix(q) /\ calls[p].r.PC = calls[q].r.PC) => calls[p].suffix = calls[q].suffix
    /\ \A p \in 1..MaxCalls :
           /\ (HasSuffix(p) /\ calls[p].r.PC \in DOMAIN suffixCache) => calls[p].suffix = suffixCache[calls[p].r.PC]
           /\ (calls[p].pc = "Return" /\ calls[p].trace # <<>>) =>
                  IsPrefixOf(calls[p].suffix, AfterMessage(calls[p].trace[1].data))
           /\ calls[p].cachedAtStart => calls[p].frames = 0
           /\ (calls[p].cachedAtStart /\ HasSuffix(p)) => calls[p].found

\* C14: under every interleaving of concurrent Handle calls the call-site
\* cache only grows, an entry once stored is never removed or changed (racing
\* misses store the same value), every call for a program counter emits the
\* same CODE_FILE, CODE_LINE and CODE_FUNC fields, and a call that starts after
\* the entry was stored takes it from the cache and does not compute it.
C14_CacheOnlyGrows == []SuffixOfCallSite /\ [][CacheOnlyGrows]_vars

\* two calls for one program counter that both missed, both computed the
\* suffix and both stored it, while the cache also holds another entry
C14_Witness ==
    \E p, q \in 1..MaxCalls :
        /\ p # q
        /\ calls[p].r.PC = calls[q].r.PC
        /\ calls[p].pc = "Return" /\ calls[q].pc = "Return"
        /\ calls[p].frames = 1 /\ calls[q].frames = 1
        /\ Cardinality(DOMAIN suffixCache) > 1

\* goroutine p holds its buffer: from newBuffer up to the deferred free
Holding(p) == calls[p].pc \in {"Encode", "Send", "SendViaFile", "Free"}

\* the entry of the record of the call of goroutine p, as the call encoded it
EntryOf(p) == calls[p].entry

\* a buffer that is held is not in the pool and is held by one call alone;
\* what a call sent, inline or in a file, is the entry of its own record
BufferExclusive ==
    \A p \in 1..MaxCalls :
        /\ Holding(p) => calls[p].buf \notin pool
        /\ \A q \in 1..MaxCalls : (p # q /\ Holding(p) /\ Holding(q)) => calls[p].buf # calls[q].buf
        /\ \A k \in 1..Len(calls[p].trace) :
               LET e == calls[p].trace[k]
               IN  (e.op = "write" \/ (e.op = "sendmsg" /\ e.fd = 0)) => e.data = EntryOf(p)

\* a step of a Handle call leaves every Handler as it is
HandleLeavesHandlers == calls' # calls => (ctx' = ctx /\ heapB' = heapB /\ heapS' = heapS)

\* C15: of concurrent Handle calls on one Handler or on Handlers derived from
\* a common one, each holds its buffer alone from newBuffer until its send,
\* the fallback included, has returned, and gives it back only then; each
\* datagram or fallback file holds the entry of one record and no byte of
\* another call's; no Handle call changes the Handler it runs on.
C15_BufferHeldUntilSent == []BufferExclusive /\ [][HandleLeavesHandlers]_vars

\* two calls on different Handlers in their sends at once, one of them in the
\* fallback with a buffer that held a longer entry before
C15_Witness ==
    \E p, q \in 1..MaxCalls :
        /\ p # q
        /\ calls[p].pc = "SendViaFile"
        /\ calls[q].pc = "Send"
        /\ calls[p].h # calls[q].h
        /\ EntryOf(p) # EntryOf(q)
        /\ Len(mem[calls[p].buf]) > calls[p].n

-----------------------------------------------------------------------------
(* The groups a Handler has reflected in its buffer.                       *)

\* the counter is within the open groups, and the group prefix is the names
\* of the groups it counts, each followed by "."
GroupsReflected ==
    \A i \in 1..Len(ctx) :
        /\ ctx[i].nOpenGroups <= ctx[i].groups.len
        /\ ctx[i].groupPrefix = DotJoin(SubSeq(Elems(heapS, ctx[i].groups), 1, ctx[i].nOpenGroups))

\* a call of WithGroup: the new Handler has the parent's groups and one name
\* more, and the parent's buffer, counter, group prefix and other fields
WithGroupStep ==
    (Len(ctx') = Len(ctx) + 1 /\ hist'[Len(ctx')].op = "WithGroup") =>
        LET n == Len(ctx')
            i == hist'[n].parent
            old == OtherFields(ctx[i], heapB, heapS)
        IN  /\ \E name \in GroupNames :
                   OtherFields(ctx'[n], heapB', heapS') = [old EXCEPT !.groups = Append(@, name)]
            /\ ctx'[n].msgPrefix = ctx[i].msgPrefix

\* C16: in every Handler reached from NewHandler by WithAttrs, WithGroup and
\* ExtendPrefix, nOpenGroups is at most the number of open groups and the
\* group prefix is the names of the first nOpenGroups groups, each followed by
\* "."; WithGroup appends one name to the groups and leaves the pre-rendered
\* buffer, the counter and the group prefix as they were.
C16_CounterWithinGroups == []GroupsReflected /\ [][WithGroupStep]_vars

\* a Handler with a group reflected in its buffer and a later one that is not
C16_Witness ==
    \E i \in 1..Len(ctx) :
        /\ hist[i].op = "WithGroup"
        /\ ctx[i].nOpenGroups > 0
        /\ ctx[i].nOpenGroups < ctx[i].groups.len
        /\ ctx[i].preformattedAttrs.len > 0

-----------------------------------------------------------------------------
(* Separators in pre-rendered attributes.                                  *)

\* the Handlers made by WithAttrs from a parent whose buffer was empty
RenderedFromEmpty == {i \in 1..Len(ctx) : hist[i].op = "WithAttrs" /\ ctx[hist[i].parent].preformattedAttrs.len = 0}

\* C17: rendering a list of attributes from an empty separator, as WithAttrs
\* does on an empty pre-rendered buffer, writes a separator only between two
\* key=value fragments: the text does not begin with a separator and has no
\* two separators in a row, also when the list has keyed groups whose children
\* are all left out.
C17_SeparatorOnlyBetween ==
    \A i \in RenderedFromEmpty :
        LET text == Elems(heapB, ctx[i].preformattedAttrs)
        IN  /\ text # <<>> => text[1] # " "
            /\ \A k \in 1..(Len(text) - 1) : ~(text[k] = " " /\ text[k + 1] = " ")

-----------------------------------------------------------------------------
(* The temporary file of the fallback.                                     *)

\* C18: where the fallback file is a temporary file, a file that
\* createNonlinkedFile returns has been unlinked; when the unlinking fails no
\* file is returned (nothing is written to it and its descriptor is not sent)
\* and its descriptor is closed.
C18_UnlinkedOrNotReturned ==
    (last.op = "Handle" /\ platform = "unix") =>
        \A k \in 1..Len(last.trace) :
            (last.trace[k].op = "Remove" /\ last.trace[k].res # "ok") =>
                /\ \A j \in (k + 1)..Len(last.trace) :
                       ~(last.trace[j].fd = last.trace[k].fd /\ last.trace[j].op \in {"write", "sendmsg"})
                /\ Cardinality(Closes(last.trace, last.trace[k].fd)) = 1

====
